---- MODULE Spec2Model ----
(***************************************************************************)
(* A model of fix_app_icon.py: main() walks a fixed list of three icon     *)
(* files under one directory; each existing file is renamed to             *)
(* <name>.backup and remove_transparency() re-creates <name> as the        *)
(* backup composited onto white, saved as an RGB PNG.                      *)
(*                                                                         *)
(* The filesystem is a partial map from path to content: a path that is    *)
(* not in DOMAIN fs does not exist.  Every step of main() that touches the *)
(* filesystem or the console is one action.                                *)
(***************************************************************************)
EXTENDS Integers, Sequences, FiniteSets, TLC

VARIABLES
    fs,        \* the filesystem: [existing path -> content]
    pc,        \* position of main(): start, check, rename, flatten, finish, done, raised
    idx,       \* index into icon_files of the name being processed
    out,       \* console output of the current run, one entry per print()
    ops,       \* filesystem calls of the current run, in order
    attempts,  \* the current run: one entry per icon name whose step has ended
    run,       \* number of the current run of the script (1 = first)
    pre,       \* the filesystem when the current run started
    orig,      \* the filesystem before the first run
    hist,      \* the attempts of the earlier runs
    stdout     \* the encoding of sys.stdout, which print() writes to

vars == <<fs, pc, idx, out, ops, attempts, run, pre, orig, hist, stdout>>

\* ------------------------------------------------------------------ bounds

\* How many times in succession the script is run.
MaxRuns == 2

\* ---------------------------------------------------------------- constants

app_icon_dir == "SaviPets/Assets.xcassets/AppIcon.appiconset"

icon_files == << "SaviPets-iOS-Default-1024x1024@1x.png",
                 "SaviPets-iOS-Dark-1024x1024@1x.png",
                 "SaviPets-iOS-TintedLight-1024x1024@1x.png" >>

\* os.path.join(app_icon_dir, icon_file)
input_path(icon_file) == app_icon_dir \o "/" \o icon_file

\* Variant: the backup is given another suffix.
backup_path_wrong_suffix(p) == p \o ".bak"

\* input_path + ".backup"
backup_path(p) == p \o ".backup"

White == 255

\* ------------------------------------------------------------ file contents

Directory == [kind |-> "dir"]
\* A directory that does not allow its entries to be renamed (read-only for
\* the user, or immutable).
LockedDirectory == [kind |-> "locked_dir"]
\* A file whose bytes no decoder of PIL identifies.
Garbage   == [kind |-> "bytes"]
\* The empty or truncated file a failed save leaves behind; no image decodes
\* from it.
PartialFile == [kind |-> "partial"]

\* A decoded image: mode, size <<width, height>>, data = the pixels in row
\* order, each a tuple with one entry per band of the mode.
Img(mode, size, data) == [mode |-> mode, size |-> size, data |-> data]

\* PNG colour types and the PIL modes they decode to (8 bit samples).
ColourTypeOf(mode) ==
    CASE mode = "L"    -> 0
      [] mode = "RGB"  -> 2
      [] mode = "LA"   -> 4
      [] mode = "RGBA" -> 6

ModeOf(colour_type) ==
    CASE colour_type = 0 -> "L"
      [] colour_type = 2 -> "RGB"
      [] colour_type = 4 -> "LA"
      [] colour_type = 6 -> "RGBA"

\* Image.save(path, 'PNG'): the file that holds the image.
PngEncode(img) ==
    [kind |-> "png", colour_type |-> ColourTypeOf(img.mode),
     width |-> img.size[1], height |-> img.size[2], idat |-> img.data]

\* Image.open(path) followed by the load: the image a PNG file holds.
PngDecode(file) ==
    Img(ModeOf(file.colour_type), <<file.width, file.height>>, file.idat)

Decodable(file) == file.kind = "png"

\* ------------------------------------------------------------- compositing

Bytes == 0 .. 255

\* DIV255 of PIL's paste: a / 255 rounded to the nearest integer, by shifts.
\* Variant: a division by 256 that truncates instead of the rounded a / 255.
DIV255_truncating(a) == a \div 256

DIV255(a) ==
    LET tmp == a + 128
    IN  ((tmp \div 256) + tmp) \div 256

\* BLEND of PIL's paste with an "L" mask: in1 is the pixel already in the
\* destination, in2 the pasted pixel, mask the mask's value at that pixel.
BLEND(mask, in1, in2) == DIV255(in1 * (255 - mask) + in2 * mask)

\* Variant: a missing alpha is taken as 0 (transparent) instead of 255.
ConvertPixel_alpha_zero(mode, px) ==
    CASE mode = "L"    -> <<px[1], px[1], px[1], 0>>
      [] mode = "LA"   -> <<px[1], px[1], px[1], px[2]>>
      [] mode = "RGB"  -> <<px[1], px[2], px[3], 0>>
      [] mode = "RGBA" -> px

\* img.convert('RGBA') of one pixel: grey is copied to the three colours,
\* a missing alpha becomes 255.
ConvertPixel(mode, px) ==
    CASE mode = "L"    -> <<px[1], px[1], px[1], 255>>
      [] mode = "LA"   -> <<px[1], px[1], px[1], px[2]>>
      [] mode = "RGB"  -> <<px[1], px[2], px[3], 255>>
      [] mode = "RGBA" -> px

\* if img.mode != 'RGBA': img = img.convert('RGBA')
ConvertRGBA(img) ==
    IF img.mode # "RGBA"
    THEN Img("RGBA", img.size,
             [k \in 1 .. Len(img.data) |-> ConvertPixel(img.mode, img.data[k])])
    ELSE img

\* Image.new('RGB', size, (255, 255, 255))
NewBackground(size) ==
    Img("RGB", size, [k \in 1 .. size[1] * size[2] |-> <<White, White, White>>])

\* img.split()[-1]: the last band of the image, one value per pixel.
LastBand(img) == [k \in 1 .. Len(img.data) |-> img.data[k][Len(img.data[k])]]

\* Variant: the image is pasted without its mask.
Paste_mask_ignored(background, img, mask) ==
    Img(background.mode, background.size,
        [k \in 1 .. Len(background.data) |->
            [c \in 1 .. 3 |-> img.data[k][c]]])

\* background.paste(img, mask=mask): every colour of every pixel of the
\* destination is blended with the pasted image, weighted by the mask.
Paste(background, img, mask) ==
    Img(background.mode, background.size,
        [k \in 1 .. Len(background.data) |->
            [c \in 1 .. 3 |->
                BLEND(mask[k], background.data[k][c], img.data[k][c])]])

\* Variant: the decoded image is saved as it is.
Flattened_not_composited(file) == PngDecode(file)

\* Lines 15-25 of remove_transparency: the image that is saved, given the
\* content of the file at image_path.
Flattened(file) ==
    LET img        == ConvertRGBA(PngDecode(file))
        background == NewBackground(img.size)
    IN  Paste(background, img, LastBand(img))

\* --------------------------------------------------------------- filesystem

\* os.path.exists(p)
exists(p) == p \in DOMAIN fs

\* Variant: an existing destination is kept, the source is dropped.
os_rename_keeps_existing(src, dst) ==
    [q \in (DOMAIN fs \ {src}) \cup {dst} |->
        IF q = dst /\ ~exists(dst) THEN fs[src] ELSE fs[q]]

\* os.rename(src, dst) when it succeeds: src is gone, dst holds what src held,
\* replacing whatever file was at dst.
os_rename(src, dst) ==
    [q \in (DOMAIN fs \ {src}) \cup {dst} |-> IF q = dst THEN fs[src] ELSE fs[q]]

\* os.rename(src, dst) raises when src is a file and dst is a directory, and
\* when the directory that holds them does not allow the rename.
rename_raises(src, dst) ==
    \/ exists(dst) /\ fs[dst] = Directory
    \/ fs[app_icon_dir] = LockedDirectory

\* Variant: the output is written over the backup instead of the icon path.
write_file_clobbers_backup(p, content) ==
    [q \in DOMAIN fs \cup {backup_path(p)} |->
        IF q = backup_path(p) THEN content ELSE fs[q]]

\* The filesystem after a file is written (created or replaced) at p.
write_file(p, content) ==
    [q \in DOMAIN fs \cup {p} |-> IF q = p THEN content ELSE fs[q]]

\* ------------------------------------------------------------------ console

Msg(kind, arg) == [kind |-> kind, arg |-> arg]

\* The four print() calls that end main().
CompletionNotice ==
    << Msg("complete", ""), Msg("next_steps", ""),
       Msg("step", "1"), Msg("step", "2") >>

\* The encodings of sys.stdout: one that encodes every character, one that
\* encodes no emoji.
Encodings == {"utf-8", "ascii"}

\* The messages whose text holds an emoji (lines 29, 32, 39, 59, 61, 62).
EmojiKinds ==
    {"fixed", "error", "dir_not_found", "icon_not_found", "complete", "next_steps"}

\* print(msg) raises UnicodeEncodeError, writing nothing, when sys.stdout
\* cannot encode the text.
print_raises(msg) == stdout = "ascii" /\ msg.kind \in EmojiKinds

Op(op, path) == [op |-> op, path |-> path]

Attempt(icon_file, res) == [name |-> icon_file, res |-> res]

\* The position of main() after the body of the for loop ends for idx.
NextIcon ==
    /\ idx' = idx + 1
    /\ pc' = IF idx < Len(icon_files) THEN "check" ELSE "finish"

\* --------------------------------------------------------------------- main

\* Lines 36-40: the directory check.
CheckDir ==
    /\ pc = "start"
    /\ ops' = Append(ops, Op("exists", app_icon_dir))
    /\ IF ~exists(app_icon_dir)
       THEN IF print_raises(Msg("dir_not_found", app_icon_dir))
            THEN /\ out' = out
                 /\ pc' = "raised"
            ELSE /\ out' = Append(out, Msg("dir_not_found", app_icon_dir))
                 /\ pc' = "done"
       ELSE /\ out' = out
            /\ pc' = "check"
    /\ UNCHANGED <<fs, idx, attempts, run, pre, orig, hist, stdout>>

\* Lines 49-51 and 58-59: the existence check of one icon file.
CheckIcon ==
    /\ pc = "check"
    /\ LET icon_file == icon_files[idx]
       IN  /\ ops' = Append(ops, Op("exists", input_path(icon_file)))
           /\ IF exists(input_path(icon_file))
              THEN /\ pc' = "rename"
                   /\ UNCHANGED <<idx, out, attempts>>
              ELSE /\ attempts' = Append(attempts, Attempt(icon_file, "absent"))
                   /\ IF print_raises(Msg("icon_not_found", icon_file))
                      THEN /\ pc' = "raised"
                           /\ UNCHANGED <<idx, out>>
                      ELSE /\ out' = Append(out, Msg("icon_not_found", icon_file))
                           /\ NextIcon
    /\ UNCHANGED <<fs, run, pre, orig, hist, stdout>>

\* Lines 53-54: the backup.  An exception of os.rename is caught nowhere and
\* ends main(), as does an exception of a print() outside a try.
Backup ==
    /\ pc = "rename"
    /\ LET icon_file == icon_files[idx]
           src == input_path(icon_file)
           dst == backup_path(src)
       IN  /\ ops' = Append(ops, Op("rename", <<src, dst>>))
           /\ IF rename_raises(src, dst)
              THEN /\ pc' = "raised"
                   /\ attempts' = Append(attempts, Attempt(icon_file, "rename_raised"))
                   /\ UNCHANGED fs
              ELSE /\ pc' = "flatten"
                   /\ fs' = os_rename(src, dst)
                   /\ UNCHANGED attempts
    /\ UNCHANGED <<idx, out, run, pre, orig, hist, stdout>>

\* What background.save() at line 28 can do.  Image.save creates the file at
\* output_path before it encodes; the source cleans nothing up when it raises.
\*   "saved":   the whole image is written;
\*   "nothing": it raises with no file at output_path (the file could not be
\*              created, or PIL removed the file it had created);
\*   "partial": it raises and the empty or truncated file it created stays.
SaveOutcomes == {"saved", "nothing", "partial"}

\* The except handler of lines 31-32: the error is printed and the function
\* returns; when that print() raises, the exception leaves the function and
\* ends main() at line 57.
HandleError(image_path, cause) ==
    IF print_raises(Msg("error", <<image_path, cause>>))
    THEN /\ pc' = "raised"
         /\ UNCHANGED <<idx, out>>
    ELSE /\ out' = Append(out, Msg("error", <<image_path, cause>>))
         /\ NextIcon

\* Line 57 and lines 11-32: remove_transparency(backup_path, input_path), with
\* the outcome of background.save() drawn from SaveOutcomes.  The attempt is
\* "fixed" when the image was saved; the print() of line 29 follows the save
\* inside the try, so when it raises the handler runs after the file is written.
remove_transparency(save) ==
    /\ pc = "flatten"
    /\ LET icon_file   == icon_files[idx]
           output_path == input_path(icon_file)
           image_path  == backup_path(output_path)
       IN  IF ~Decodable(fs[image_path])
           THEN /\ ops' = Append(ops, Op("read", image_path))
                /\ attempts' = Append(attempts, Attempt(icon_file, "decode_error"))
                /\ UNCHANGED fs
                /\ HandleError(image_path, "decode")
           ELSE /\ ops' = ops \o <<Op("read", image_path), Op("write", output_path)>>
                /\ IF save = "saved"
                   THEN /\ fs' = write_file(output_path,
                                            PngEncode(Flattened(fs[image_path])))
                        /\ attempts' = Append(attempts, Attempt(icon_file, "fixed"))
                        /\ IF print_raises(Msg("fixed", <<image_path, output_path>>))
                           THEN HandleError(image_path, "print")
                           ELSE /\ out' = Append(out,
                                      Msg("fixed", <<image_path, output_path>>))
                                /\ NextIcon
                   ELSE /\ fs' = IF save = "partial"
                                 THEN write_file(output_path, PartialFile)
                                 ELSE fs
                        /\ attempts' = Append(attempts, Attempt(icon_file, "save_error"))
                        /\ HandleError(image_path, "save")
    /\ UNCHANGED <<run, pre, orig, hist, stdout>>

Flatten == \E save \in SaveOutcomes : remove_transparency(save)

\* Lines 61-64: the completion notice.
Finish ==
    /\ pc = "finish"
    /\ IF print_raises(CompletionNotice[1])
       THEN /\ out' = out
            /\ pc' = "raised"
       ELSE /\ out' = out \o CompletionNotice
            /\ pc' = "done"
    /\ UNCHANGED <<fs, idx, ops, attempts, run, pre, orig, hist, stdout>>

\* The script is run again (line 66-67) after a run ended.
RunAgain ==
    /\ pc \in {"done", "raised"}
    /\ run < MaxRuns
    /\ run' = run + 1
    /\ hist' = Append(hist, attempts)
    /\ pre' = fs
    /\ pc' = "start"
    /\ idx' = 1
    /\ out' = <<>>
    /\ ops' = <<>>
    /\ attempts' = <<>>
    /\ UNCHANGED <<fs, orig, stdout>>

\* ------------------------------------------------------------ initial states

\* Icon files a directory may hold before the first run.
TransparentIcon ==
    PngEncode(Img("RGBA", <<2, 1>>, << <<0, 0, 0, 0>>, <<200, 100, 50, 128>> >>))
OpaqueIcon ==
    PngEncode(Img("RGB", <<1, 2>>, << <<12, 34, 56>>, <<255, 0, 7>> >>))
OldBackup ==
    PngEncode(Img("LA", <<1, 1>>, << <<40, 77>> >>))

IconContents   == {TransparentIcon, OpaqueIcon, Garbage}
BackupContents == {OldBackup, Directory}

\* The filesystem f with content c at path p.
Put(f, p, c) == [q \in DOMAIN f \cup {p} |-> IF q = p THEN c ELSE f[q]]

NoDirectory   == [p \in {} |-> Directory]
OnlyDirectory == [p \in {app_icon_dir} |-> Directory]
OnlyLockedDirectory == [p \in {app_icon_dir} |-> LockedDirectory]

\* The filesystems in which the directory exists: each icon file is absent or
\* holds one of IconContents, each backup path is absent or holds one of
\* BackupContents.
Filesystems ==
    LET Fill[n \in 0 .. Len(icon_files)] ==
            IF n = 0 THEN {OnlyDirectory, OnlyLockedDirectory}
            ELSE LET p == input_path(icon_files[n])
                     WithIcon(f) == {f} \cup {Put(f, p, c) : c \in IconContents}
                     WithBackup(f) ==
                         {f} \cup {Put(f, backup_path(p), c) : c \in BackupContents}
                 IN  UNION { UNION { WithBackup(g) : g \in WithIcon(f) }
                             : f \in Fill[n - 1] }
    IN  Fill[Len(icon_files)]

\* The state in which the script is started for the first time on f.
InitOn(f) ==
    /\ fs = f
    /\ pc = "start"
    /\ idx = 1
    /\ out = <<>>
    /\ ops = <<>>
    /\ attempts = <<>>
    /\ run = 1
    /\ pre = f
    /\ orig = f
    /\ hist = <<>>
    /\ stdout \in Encodings

Init == \E f \in Filesystems \cup {NoDirectory} : InitOn(f)

Next == CheckDir \/ CheckIcon \/ Backup \/ Flatten \/ Finish \/ RunAgain

Spec == Init /\ [][Next]_vars

\* One-pixel icons over the whole range of an 8 bit sample: every grey value
\* with every alpha, and every alpha with colours drawn from ChannelSamples.
ChannelSamples == {0, 127, 255}

\* The directory holding only the first icon file, a 1 x 1 image.
OneIcon(mode, px) ==
    Put(OnlyDirectory, input_path(icon_files[1]),
        PngEncode(Img(mode, <<1, 1>>, <<px>>)))

\* One run of the script; the first icon file also ranges over the one-pixel
\* images of every mode.
InitPixels ==
    \/ Init
    \/ \E l \in Bytes, a \in Bytes : InitOn(OneIcon("LA", <<l, a>>))
    \/ \E r \in ChannelSamples, g \in ChannelSamples, b \in ChannelSamples :
         \E a \in Bytes : InitOn(OneIcon("RGBA", <<r, g, b, a>>))
    \/ \E l \in Bytes : InitOn(OneIcon("L", <<l>>))
    \/ \E r \in ChannelSamples, g \in ChannelSamples, b \in ChannelSamples :
         InitOn(OneIcon("RGB", <<r, g, b>>))

NextPixels == CheckDir \/ CheckIcon \/ Backup \/ Flatten \/ Finish

SpecPixels == InitPixels /\ [][NextPixels]_vars

\* ------------------------------------------------------------------- claims

Names == 1 .. Len(icon_files)

\* <root>/<name> and <root>/<name>.backup as the specification writes them.
IconPath(n)   == app_icon_dir \o "/" \o icon_files[n]
BackupOf(n)   == IconPath(n) \o ".backup"

\* The outcome of name n in a sequence of attempts ("pending": none yet).
ResIn(atts, n) ==
    IF \E k \in DOMAIN atts : atts[k].name = icon_files[n]
    THEN (CHOOSE a \in {atts[k] : k \in DOMAIN atts} : a.name = icon_files[n]).res
    ELSE "pending"

Res(n) == ResIn(attempts, n)

RunEnded == pc \in {"done", "raised"}

HasAlpha(file) == file.kind = "png" /\ file.colour_type \in {4, 6}
IsGrey(file)   == file.colour_type \in {0, 4}

\* Alpha (0..255) and colour c of pixel k of a PNG file, read off the file.
AlphaAt(file, k) ==
    IF HasAlpha(file) THEN file.idat[k][Len(file.idat[k])] ELSE 255
SourceAt(file, k, c) ==
    IF IsGrey(file) THEN file.idat[k][1] ELSE file.idat[k][c]

\* round(n / d) for n >= 0, d > 0, halves up.
RoundDiv(n, d) == (2 * n + d) \div (2 * d)

\* round(alpha * source + (1 - alpha) * 255) with alpha = alpha8 / 255.
RoundedOverWhite(alpha8, source) ==
    RoundDiv(alpha8 * source + (255 - alpha8) * 255, 255)

\* The file at the icon path is an RGB PNG of the size of src.
OpaqueSameSize(file, src) ==
    /\ file.kind = "png"
    /\ file.colour_type = 2
    /\ file.width = src.width
    /\ file.height = src.height
    /\ Len(file.idat) = Len(src.idat)
    /\ \A k \in DOMAIN file.idat : Len(file.idat[k]) = 3

\* C1: whenever remove_transparency has written the flattened version of an
\* icon that has an alpha channel, the written file is RGB, has the width and
\* height of the input and holds round(alpha*source + (1-alpha)*255) at every
\* pixel and colour.
C1_CompositeOverWhite ==
    \A n \in Names :
        (Res(n) = "fixed" /\ HasAlpha(pre[IconPath(n)])) =>
            LET src     == pre[IconPath(n)]
                written == fs[IconPath(n)]
            IN  /\ OpaqueSameSize(written, src)
                /\ \A k \in DOMAIN src.idat : \A c \in 1 .. 3 :
                     written.idat[k][c] =
                        RoundedOverWhite(AlphaAt(src, k), SourceAt(src, k, c))

C1_Witness ==
    /\ Res(1) = "fixed"
    /\ IconPath(1) \in DOMAIN pre
    /\ HasAlpha(pre[IconPath(1)])
    /\ AlphaAt(pre[IconPath(1)], 1) = 77
    /\ SourceAt(pre[IconPath(1)], 1, 1) = 40
    /\ fs[IconPath(1)].idat[1] = <<190, 190, 190>>

\* C8: for an icon that is opaque at every pixel (alpha 255 everywhere, or no
\* alpha channel), the written pixels equal the source RGB exactly.
C8_OpaqueUnchanged ==
    \A n \in Names :
        (/\ Res(n) = "fixed"
         /\ \A k \in DOMAIN pre[IconPath(n)].idat :
                AlphaAt(pre[IconPath(n)], k) = 255) =>
            LET src     == pre[IconPath(n)]
                written == fs[IconPath(n)]
            IN  /\ OpaqueSameSize(written, src)
                /\ \A k \in DOMAIN src.idat : \A c \in 1 .. 3 :
                     written.idat[k][c] = SourceAt(src, k, c)

C8_Witness ==
    /\ Res(1) = "fixed"
    /\ IconPath(1) \in DOMAIN pre
    /\ HasAlpha(pre[IconPath(1)])
    /\ pre[IconPath(1)].colour_type = 6
    /\ pre[IconPath(1)].idat = << <<127, 0, 255, 255>> >>
    /\ fs[IconPath(1)].idat = << <<127, 0, 255>> >>

\* C9: for an icon whose alpha is 0 at every pixel, the written image is white
\* at every pixel, whatever the source colours are.
C9_TransparentBecomesWhite ==
    \A n \in Names :
        (/\ Res(n) = "fixed"
         /\ HasAlpha(pre[IconPath(n)])
         /\ \A k \in DOMAIN pre[IconPath(n)].idat :
                AlphaAt(pre[IconPath(n)], k) = 0) =>
            LET src     == pre[IconPath(n)]
                written == fs[IconPath(n)]
            IN  /\ OpaqueSameSize(written, src)
                /\ \A k \in DOMAIN written.idat :
                     written.idat[k] = <<255, 255, 255>>

C9_Witness ==
    /\ Res(1) = "fixed"
    /\ IconPath(1) \in DOMAIN pre
    /\ HasAlpha(pre[IconPath(1)])
    /\ pre[IconPath(1)].colour_type = 6
    /\ pre[IconPath(1)].idat = << <<127, 0, 255, 0>> >>
    /\ fs[IconPath(1)].idat = << <<255, 255, 255>> >>

DirExisted == app_icon_dir \in DOMAIN pre

\* The kinds of console message that belong to one icon file or to the end.
PerFileKinds == {"icon_not_found", "fixed", "error"}
FinalKinds   == {"complete", "next_steps", "step"}

\* The paths a filesystem call names.
PathsOf(o) == IF o.op = "rename" THEN {o.path[1], o.path[2]} ELSE {o.path}

\* The icon name (index) a filesystem call belongs to; 0 for the directory.
NameOf(o) ==
    IF o.path = app_icon_dir THEN 0
    ELSE CHOOSE n \in Names : PathsOf(o) \subseteq {IconPath(n), BackupOf(n)}

\* C2: when the directory did not exist at the start of the run, no file is
\* renamed, created or modified, no icon name is examined, the run ends with
\* exactly one diagnostic, and there is never a per-file or completion message.
C2_MissingRootDoesNothing ==
    ~DirExisted =>
        /\ fs = pre
        /\ attempts = <<>>
        /\ \A k \in DOMAIN ops : ops[k] = Op("exists", app_icon_dir)
        /\ pc \in {"start", "done"}
        /\ \A k \in DOMAIN out : out[k].kind \notin PerFileKinds \cup FinalKinds
        /\ pc = "start" => out = <<>>
        /\ pc = "done" => out = << Msg("dir_not_found", app_icon_dir) >>

\* C3: when the directory exists, main never ends by an exception: it ends
\* only after each of the three names was attempted once, in list order, and
\* the completion notice is the last thing printed.
C3_NeverAbortsPartway ==
    DirExisted =>
        /\ pc # "raised"
        /\ pc = "done" =>
            /\ [k \in DOMAIN attempts |-> attempts[k].name] = icon_files
            /\ Len(out) >= Len(CompletionNotice)
            /\ SubSeq(out, Len(out) - Len(CompletionNotice) + 1, Len(out))
                  = CompletionNotice

\* C4: when the directory exists and an icon file is absent, the finished run
\* has printed exactly one "not found" notice for that name, has renamed or
\* written nothing for that name, and has processed every name of the list.
C4_AbsentIconSkipped ==
    \A n \in Names :
        (DirExisted /\ RunEnded /\ IconPath(n) \notin DOMAIN pre) =>
            /\ Cardinality({k \in DOMAIN out :
                    out[k] = Msg("icon_not_found", icon_files[n])}) = 1
            /\ \A k \in DOMAIN ops :
                 ops[k].op \in {"rename", "write"} => NameOf(ops[k]) # n
            /\ \A m \in Names : Res(m) # "pending"

\* Path p holds exactly the content c.
Holds(p, c) == p \in DOMAIN fs /\ fs[p] = c

\* C5: during and after the first run, the original content of every icon file
\* that existed is at the icon path or at its backup path; once flattening
\* succeeded the backup holds the original and the icon path holds the
\* flattened RGB image; and a backup path that exists is never removed.
C5_BackupKeepsOriginal ==
    \A n \in Names :
        /\ (run = 1 /\ IconPath(n) \in DOMAIN orig) =>
              /\ Holds(IconPath(n), orig[IconPath(n)])
                    \/ Holds(BackupOf(n), orig[IconPath(n)])
              /\ Res(n) = "fixed" =>
                    /\ Holds(BackupOf(n), orig[IconPath(n)])
                    /\ Holds(IconPath(n), PngEncode(Flattened(orig[IconPath(n)])))
                    /\ OpaqueSameSize(fs[IconPath(n)], orig[IconPath(n)])
        /\ BackupOf(n) \in DOMAIN pre => BackupOf(n) \in DOMAIN fs
        /\ Res(n) \in {"fixed", "decode_error", "save_error"} =>
              BackupOf(n) \in DOMAIN fs

C5_Witness ==
    /\ IconPath(1) \in DOMAIN orig
    /\ run = 1
    /\ pc = "done"
    /\ orig[IconPath(1)] = TransparentIcon
    /\ Res(1) = "fixed"
    /\ fs[BackupOf(1)] = TransparentIcon
    /\ fs[IconPath(1)].idat = << <<255, 255, 255>>, <<227, 177, 152>> >>

\* C6: after two successive runs that both flattened an icon file, its backup
\* is the flattened RGB image run 1 produced, and when the original had an
\* alpha channel the original is at neither the icon path nor the backup path.
C6_SecondRunOverwritesBackup ==
    \A n \in Names :
        (/\ run = 2
         /\ pc = "done"
         /\ ResIn(hist[1], n) = "fixed"
         /\ Res(n) = "fixed") =>
            /\ Holds(BackupOf(n), PngEncode(Flattened(orig[IconPath(n)])))
            /\ ~HasAlpha(fs[BackupOf(n)])
            /\ HasAlpha(orig[IconPath(n)]) =>
                  /\ fs[BackupOf(n)] # orig[IconPath(n)]
                  /\ fs[IconPath(n)] # orig[IconPath(n)]

C6_Witness ==
    /\ IconPath(1) \in DOMAIN orig
    /\ run = 2
    /\ pc = "done"
    /\ orig[IconPath(1)] = TransparentIcon
    /\ ResIn(hist[1], 1) = "fixed"
    /\ Res(1) = "fixed"
    /\ fs[BackupOf(1)].colour_type = 2

ErrorsFor(n) ==
    {k \in DOMAIN out : out[k].kind = "error" /\ out[k].arg[1] = BackupOf(n)}

\* The error of name n was printed once, with the path and the cause, and
\* main went on past that name.
ReportedNotPropagated(n) ==
    /\ Cardinality(ErrorsFor(n)) = 1
    /\ \E cause \in {"decode", "save"} :
         /\ Res(n) = cause \o "_error"
         /\ \E k \in DOMAIN out :
              out[k] = Msg("error", <<BackupOf(n), cause>>)
    /\ idx > n
    /\ pc \in {"check", "rename", "flatten", "finish", "done", "raised"}
    /\ pc = "raised" => attempts[Len(attempts)].name # icon_files[n]

\* C7: when remove_transparency failed for an icon file (decode or
\* save), from the end of that file's step the content it had is at the backup
\* path only, nothing is at the icon path, one error naming the path and the
\* cause was printed, and main went on past that file.
C7_FailureLeavesOnlyBackup ==
    \A n \in Names :
        Res(n) \in {"decode_error", "save_error"} =>
            /\ IconPath(n) \notin DOMAIN fs
            /\ Holds(BackupOf(n), pre[IconPath(n)])
            /\ ReportedNotPropagated(n)

AllowedPaths == {IconPath(n) : n \in Names} \cup {BackupOf(n) : n \in Names}

\* C10: every path a run reads, renames or writes is <root>/<name> or
\* <root>/<name>.backup of a listed name; the calls come name by name in list
\* order, and when a name's existence is checked every earlier name's step has
\* ended; an absent name gets no file and its backup path is left as it was.
C10_OnlyIconPathsInOrder ==
    /\ \A k \in DOMAIN ops :
         /\ ops[k].op \in {"read", "rename", "write"} =>
               PathsOf(ops[k]) \subseteq AllowedPaths
         /\ PathsOf(ops[k]) \subseteq AllowedPaths \cup {app_icon_dir}
    /\ \A j, k \in DOMAIN ops : j < k => NameOf(ops[j]) <= NameOf(ops[k])
    /\ \A k \in DOMAIN ops :
         (ops[k].op = "exists" /\ NameOf(ops[k]) > 0) =>
            \A j \in 1 .. k - 1 : NameOf(ops[j]) < NameOf(ops[k])
    /\ pc = "check" =>
         /\ \A m \in Names : m < idx <=> Res(m) # "pending"
         /\ \A k \in DOMAIN ops : NameOf(ops[k]) < idx
    /\ DOMAIN fs \subseteq AllowedPaths \cup {app_icon_dir}
    /\ \A n \in Names :
         Res(n) = "absent" =>
            /\ IconPath(n) \notin DOMAIN fs
            /\ BackupOf(n) \in DOMAIN fs <=> BackupOf(n) \in DOMAIN pre
            /\ BackupOf(n) \in DOMAIN pre => fs[BackupOf(n)] = pre[BackupOf(n)]

C10_Witness ==
    /\ pc = "done"
    /\ Res(1) = "fixed"
    /\ Res(2) = "absent"
    /\ Holds(BackupOf(2), OldBackup)
    /\ Res(3) = "fixed"
    /\ Len(ops) = 10

====
